---- MODULE Spec2Model ----
(***************************************************************************)
(* The download command of the exercism CLI (cmd/download.go).             *)
(*                                                                         *)
(* A string is a sequence of lexemes (each a TLA+ string); concatenation   *)
(* is \o and the empty string is << >>.  A path on disk is a sequence of   *)
(* path elements below the volume root, each element a string.             *)
(***************************************************************************)
EXTENDS Naturals, Sequences, FiniteSets

VARIABLES
    pc,          \* position in downloadCmd.Run
    flags,       \* the command line: [uuid, track, args]
    env,         \* the machine: [Separator, configErr]
    server,      \* what the API answers to the download request
    exercise,    \* Run's local `exercise`
    dr,          \* Run's downloadRequest value: [request, payload]
    doPayload,   \* the payload of the downloadRequest do() works on
    res,         \* StatusCode of the top-level response
    solution,    \* the workspace.Solution built by newSolution
    dirs,        \* directories created on disk
    fs,          \* files on disk: set of [path, content]
    stderr,      \* strings written to os.Stderr
    stdout,      \* strings written to Out
    exitCode,    \* the status given to os.Exit (pc = "exit"); 0 otherwise
    idx,         \* number of entries of the file list the range loop is past
    gets,        \* URLs of the file GETs issued, in order
    fileRes,     \* the response of the current iteration
    openBodies,  \* indices whose response body is open
    openFiles,   \* indices whose file handle is open
    handled      \* per finished iteration: "written" or "skipped"

vars == <<pc, flags, env, server, exercise, dr, doPayload, res, solution, dirs,
          fs, stderr, stdout, exitCode, idx, gets, fileRes, openBodies,
          openFiles, handled>>

----------------------------------------------------------------------------
(* Bounds and input sets *)

MaxFiles == 2

StatusOK == 200

ErrorStatuses == {404}

EmptyStr == << >>

UUIDs == {EmptyStr, <<"u1">>}

Exercises == {EmptyStr, <<"bob">>, <<"two", " ", "fer">>}

Tracks == {EmptyStr, <<"go">>, <<"c", "+", "+">>}

ArgLists == {<< >>} \cup {<<e>> : e \in Exercises}

FileNames ==
    { <<"a">>,
      <<"d", "/", "a">>,
      <<"..", "/", "x">>,
      <<"/", "a">>,
      <<"/", "..", "/", "e", "/", "x">> }

RECURSIVE SeqsUpTo(_, _)
SeqsUpTo(S, n) ==
    IF n = 0 THEN {<< >>}
    ELSE LET shorter == SeqsUpTo(S, n - 1)
         IN  shorter \cup {Append(s, x) : s \in shorter, x \in S}

FileLists == SeqsUpTo(FileNames, MaxFiles)

Bodies == {<<"x">>, <<"y", "z">>}

Workspace == <<<<"ws">>>>

FileBaseURL == <<"http://files/">>

Range(s) == {s[i] : i \in 1..Len(s)}

----------------------------------------------------------------------------
(* downloadPayload *)

NoSolution ==
    [ID |-> EmptyStr, Exercise |-> EmptyStr, Exercise_Track |-> EmptyStr,
     FileDownloadBaseURL |-> EmptyStr, Files |-> << >>]

NoError == [Type |-> EmptyStr, Message |-> EmptyStr, PossibleTrackIDs |-> << >>]

EmptyPayload == [Solution |-> NoSolution, Error |-> NoError]

SuccessPayloads ==
    { [Solution |-> [ID |-> <<"s1">>, Exercise |-> <<"bob">>,
                     Exercise_Track |-> <<"go">>,
                     FileDownloadBaseURL |-> FileBaseURL, Files |-> fl],
       Error |-> NoError] : fl \in FileLists }

ErrorPayloads ==
    { [Solution |-> NoSolution,
       Error |-> [Type |-> <<"track_ambiguous">>,
                  Message |-> <<"ambiguous">>,
                  PossibleTrackIDs |-> <<<<"ruby">>, <<"python">>>>]],
      [Solution |-> NoSolution,
       Error |-> [Type |-> EmptyStr, Message |-> <<"not", " ", "found">>,
                  PossibleTrackIDs |-> << >>]],
      [Solution |-> NoSolution,
       Error |-> [Type |-> <<"unauthorized">>, Message |-> <<"denied">>,
                  PossibleTrackIDs |-> << >>]] }

ServerAnswers ==
    {[err |-> TRUE, StatusCode |-> 0, Body |-> EmptyPayload]}
    \cup {[err |-> FALSE, StatusCode |-> StatusOK, Body |-> p] : p \in SuccessPayloads}
    \cup {[err |-> FALSE, StatusCode |-> c, Body |-> p] :
              c \in ErrorStatuses, p \in ErrorPayloads}
    \cup {[err |-> FALSE, StatusCode |-> StatusOK, Body |-> p] : p \in ErrorPayloads}

----------------------------------------------------------------------------
(* url.Values and its encoding (net/url), as used by newDownloadRequest *)

QueryKeys == <<"exercise_id", "track_id">>

EmptyValues == [k \in Range(QueryKeys) |-> << >>]

Add(q, key, value) == [q EXCEPT ![key] = Append(@, value)]

EscapeLexeme(c) ==
    CASE c = " " -> "+"
      [] c = "+" -> "%2B"
      [] c = "/" -> "%2F"
      [] c = "&" -> "%26"
      [] c = "=" -> "%3D"
      [] OTHER   -> c

QueryEscape(s) == [i \in 1..Len(s) |-> EscapeLexeme(s[i])]

RECURSIVE EncodeValues(_, _)
EncodeValues(key, vs) ==
    IF vs = << >> THEN << >>
    ELSE <<<<key, "=">> \o QueryEscape(Head(vs))>> \o EncodeValues(key, Tail(vs))

RECURSIVE EncodedPairs(_, _)
EncodedPairs(q, keys) ==
    IF keys = << >> THEN << >>
    ELSE EncodeValues(Head(keys), q[Head(keys)]) \o EncodedPairs(q, Tail(keys))

RECURSIVE JoinWith(_, _)
JoinWith(parts, sep) ==
    IF parts = << >> THEN << >>
    ELSE IF Len(parts) = 1 THEN Head(parts)
    ELSE Head(parts) \o <<sep>> \o JoinWith(Tail(parts), sep)

Encode(q) == JoinWith(EncodedPairs(q, QueryKeys), "&")

----------------------------------------------------------------------------
(* newDownloadRequest *)

URL(key, slug) == [Endpoint |-> key, Slug |-> slug, RawQuery |-> EmptyStr]

NoRequest == [Method |-> "", URL |-> URL("", EmptyStr)]

NewRequest(method, url) == [Method |-> method, URL |-> url]

Slug(uuid) == IF uuid = EmptyStr THEN <<"latest">> ELSE uuid

\* mutant: track_id is added even when track is empty
TrackQuery_Always(q, track) == Add(q, "track_id", track)

TrackQuery(q, track) == IF track # EmptyStr THEN Add(q, "track_id", track) ELSE q

\* mutant: the query is added even when a uuid is given
RequestQuery_Always(uuid, track, exer) ==
    Encode(TrackQuery(Add(EmptyValues, "exercise_id", exer), track))

RequestQuery(uuid, track, exer) ==
    IF uuid = EmptyStr
    THEN Encode(TrackQuery(Add(EmptyValues, "exercise_id", exer), track))
    ELSE EmptyStr

newDownloadRequest(uuid, track, exer, configErr) ==
    IF configErr
    THEN [err |-> TRUE, dReq |-> [request |-> NoRequest, payload |-> EmptyPayload]]
    ELSE LET url == URL("download", Slug(uuid))
             req == NewRequest("GET", url)
         IN  [err |-> FALSE,
              dReq |-> [request |-> [req EXCEPT !.URL.RawQuery =
                                         RequestQuery(uuid, track, exer)],
                        payload |-> EmptyPayload]]

----------------------------------------------------------------------------
(* Paths (path/filepath) *)

IsPathSeparator(c, sep) == c = sep \/ (sep = "\\" /\ c = "/")

FromSlash(s, sep) == [i \in 1..Len(s) |-> IF s[i] = "/" THEN sep ELSE s[i]]

RECURSIVE SplitFrom(_, _, _, _)
SplitFrom(s, i, cur, sep) ==
    IF i > Len(s) THEN <<cur>>
    ELSE IF IsPathSeparator(s[i], sep)
         THEN <<cur>> \o SplitFrom(s, i + 1, << >>, sep)
         ELSE SplitFrom(s, i + 1, Append(cur, s[i]), sep)

\* the elements of a path string, empty ones included
SplitPath(s, sep) == IF s = << >> THEN << >> ELSE SplitFrom(s, 1, << >>, sep)

IsRooted(s, sep) == s # << >> /\ IsPathSeparator(s[1], sep)

DropLast(p) == SubSeq(p, 1, Len(p) - 1)

\* filepath.Clean on elements: acc is the cleaned prefix
RECURSIVE CleanFrom(_, _, _)
CleanFrom(acc, elems, rooted) ==
    IF elems = << >> THEN acc
    ELSE LET h == Head(elems)
             t == Tail(elems)
         IN  IF h = << >> \/ h = <<".">> THEN CleanFrom(acc, t, rooted)
             ELSE IF h = <<"..">>
                  THEN IF acc # << >> /\ acc[Len(acc)] # <<"..">>
                       THEN CleanFrom(DropLast(acc), t, rooted)
                       ELSE IF rooted THEN CleanFrom(acc, t, rooted)
                            ELSE CleanFrom(Append(acc, h), t, rooted)
                  ELSE CleanFrom(Append(acc, h), t, rooted)

\* filepath.Dir: the cleaned elements before the last separator
Dir(s, sep) ==
    LET elems == SplitPath(s, sep)
    IN  IF elems = << >> THEN << >>
        ELSE CleanFrom(<< >>, DropLast(elems), IsRooted(s, sep))

\* filepath.Join of a directory on disk with the elements of a relative path
JoinElems(dir, elems) == CleanFrom(dir, elems, TRUE)

\* filepath.Join of a directory on disk with a path string
Join(dir, s, sep) == JoinElems(dir, SplitPath(s, sep))

\* os.MkdirAll: the directories it leaves on disk; it stops at an element
\* that is an existing file
MkdirAll(files, p) ==
    {SubSeq(p, 1, n) : n \in {m \in 1..Len(p) :
                                 \A k \in 1..m : SubSeq(p, 1, k) \notin files}}

Paths(files) == {f.path : f \in files}

\* os.Create and io.Copy: the files on disk with path holding content
WriteFile(files, path, content) ==
    {f \in files : f.path # path} \cup {[path |-> path, content |-> content]}

PathString(p, sep) ==
    IF p = << >> THEN <<sep>>
    ELSE <<sep>> \o JoinWith(p, sep)

IsInside(p, dir) == Len(p) >= Len(dir) /\ SubSeq(p, 1, Len(dir)) = dir

----------------------------------------------------------------------------
(* Collaborators outside cmd/download.go *)

BinName == <<"exercism">>

\* api.Client.Do(req, v): what v points to after the call
ClientDo(answer, v) == IF answer.err THEN v ELSE answer.Body

\* Prints the error and ends the process with status 1.
BailOnError(msg) ==
    /\ stderr' = Append(stderr, msg \o <<"\n">>)
    /\ exitCode' = 1
    /\ pc' = "exit"

\* workspace.Solution.PathToParent
PathToParent(s) == s.Track

\* workspace.Workspace.SolutionPath
SolutionPath(parent, exer, id, sep) == Join(Join(parent, exer, sep), id, sep)

SolutionFile == <<".solution.json">>

\* workspace.Solution.Write: the metadata written into dir, and the solution
\* after the call
Metadata(s) == <<"solution">> \o s.ID

Write(s, dir) == [s EXCEPT !.Dir = dir]

----------------------------------------------------------------------------
(* downloadRequest *)

ZeroSolution ==
    [Track |-> EmptyStr, Exercise |-> EmptyStr, ID |-> EmptyStr, Dir |-> << >>]

newSolution(d) ==
    LET s == d.payload.Solution
    IN  [Track |-> s.Exercise_Track, Exercise |-> s.Exercise, ID |-> s.ID,
         Dir |-> << >>]

\* do has a value receiver: the payload is decoded into the receiver's copy of
\* dr, and the caller's dr is what it was.
do(d, answer) ==
    LET receiver == [d EXCEPT !.payload = ClientDo(answer, d.payload)]
    IN  [err |-> answer.err, StatusCode |-> answer.StatusCode,
         receiver |-> receiver, caller |-> d]

----------------------------------------------------------------------------
(* downloadCmd.Run *)

NoFileRes == [err |-> FALSE, StatusCode |-> 0, ContentLength |-> EmptyStr,
              Body |-> EmptyStr]

loopVars == <<idx, gets, fileRes, openBodies, openFiles, handled>>

inputVars == <<flags, env, server>>

Init ==
    /\ pc = "start"
    /\ flags \in [uuid : UUIDs, track : Tracks, args : ArgLists]
    /\ env \in [Separator : {"/", "\\"}, configErr : BOOLEAN]
    /\ server \in ServerAnswers
    /\ exercise = EmptyStr
    /\ dr = [request |-> NoRequest, payload |-> EmptyPayload]
    /\ doPayload = EmptyPayload
    /\ res = 0
    /\ solution = ZeroSolution
    /\ dirs = {<< >>}
    /\ fs = {}
    /\ stderr = << >>
    /\ stdout = << >>
    /\ exitCode = 0
    /\ idx = 0
    /\ gets = << >>
    /\ fileRes = NoFileRes
    /\ openBodies = {}
    /\ openFiles = {}
    /\ handled = << >>

\* lines 31-45
Run_Args ==
    /\ pc = "start"
    /\ IF flags.uuid = EmptyStr /\ Len(flags.args) = 0
       THEN /\ stderr' = Append(stderr, <<"need an exercise name or a solution --uuid">>)
            /\ pc' = "done"
            /\ UNCHANGED exercise
       ELSE /\ exercise' = IF Len(flags.args) > 0 THEN flags.args[1] ELSE EmptyStr
            /\ pc' = "request"
            /\ UNCHANGED stderr
    /\ UNCHANGED <<inputVars, dr, doPayload, res, solution, dirs, fs, stdout,
                   exitCode, loopVars>>

\* lines 47-48
Run_NewRequest ==
    /\ pc = "request"
    /\ LET r == newDownloadRequest(flags.uuid, flags.track, exercise, env.configErr)
       IN  IF r.err
           THEN /\ BailOnError(<<"config">>)
                /\ UNCHANGED dr
           ELSE /\ dr' = r.dReq
                /\ pc' = "do"
                /\ UNCHANGED <<stderr, exitCode>>
    /\ UNCHANGED <<inputVars, exercise, doPayload, res, solution, dirs, fs,
                   stdout, loopVars>>

\* lines 50-51
Run_Do ==
    /\ pc = "do"
    /\ LET r == do(dr, server)
       IN  /\ dr' = r.caller
           /\ doPayload' = r.receiver.payload
           /\ IF r.err
              THEN /\ BailOnError(<<"transport">>)
                   /\ UNCHANGED res
              ELSE /\ res' = r.StatusCode
                   /\ pc' = "status"
                   /\ UNCHANGED <<stderr, exitCode>>
    /\ UNCHANGED <<inputVars, exercise, solution, dirs, fs, stdout, loopVars>>

Guidance(exer, ids) ==
    <<  <<"You have multiple ">> \o exer \o <<" exercises available to you.\n">>,
        <<"Specify the the --track flag:", "\n">> >>
    \o [i \in 1..Len(ids) |->
            BinName \o <<" download ">> \o exer \o <<" --track=">> \o ids[i]]

\* lines 53-66; `solution` is read here before line 68 assigns it
Run_Status ==
    /\ pc = "status"
    /\ IF res # StatusOK
       THEN IF dr.payload.Error.Type = <<"track_ambiguous">>
            THEN /\ stderr' = stderr \o Guidance(solution.Exercise,
                                                 dr.payload.Error.PossibleTrackIDs)
                 /\ exitCode' = 1
                 /\ pc' = "exit"
            ELSE BailOnError(dr.payload.Error.Message)
       ELSE /\ pc' = "materialize"
            /\ UNCHANGED <<stderr, exitCode>>
    /\ UNCHANGED <<inputVars, exercise, dr, doPayload, res, solution, dirs, fs,
                   stdout, loopVars>>

\* lines 68-80
Run_Materialize ==
    /\ pc = "materialize"
    /\ LET sol    == newSolution(dr)
           parent == Join(Workspace, PathToParent(sol), env.Separator)
           dir    == SolutionPath(parent, sol.Exercise, sol.ID, env.Separator)
       IN  \E fail \in {"none", "path", "write"} :
              IF fail = "path"
              THEN /\ dirs' = dirs \cup MkdirAll(Paths(fs), parent)
                   /\ solution' = sol
                   /\ BailOnError(<<"solution path">>)
                   /\ UNCHANGED fs
              ELSE IF fail = "write"
              THEN /\ dirs' = dirs \cup MkdirAll(Paths(fs), parent) \cup MkdirAll(Paths(fs), dir)
                   /\ solution' = sol
                   /\ BailOnError(<<"write">>)
                   /\ UNCHANGED fs
              ELSE /\ dirs' = dirs \cup MkdirAll(Paths(fs), parent) \cup MkdirAll(Paths(fs), dir)
                   /\ fs' = WriteFile(fs, Append(dir, SolutionFile), Metadata(sol))
                   /\ solution' = Write(sol, dir)
                   /\ pc' = "loop"
                   /\ UNCHANGED <<stderr, exitCode>>
    /\ UNCHANGED <<inputVars, exercise, dr, doPayload, res, stdout, loopVars>>

\* line 82 with the list exhausted, line 113, and the deferred Close calls
\* that run when Run returns
Finish ==
    /\ pc = "loop"
    /\ idx = Len(dr.payload.Solution.Files)
    /\ stdout' = Append(stdout, <<"\nDownloaded to\n">>
                                 \o PathString(solution.Dir, env.Separator)
                                 \o <<"\n">>)
    /\ openBodies' = {}
    /\ openFiles' = {}
    /\ pc' = "done"
    /\ UNCHANGED <<inputVars, exercise, dr, doPayload, res, solution, dirs, fs,
                   stderr, exitCode, idx, gets, fileRes, handled>>

----------------------------------------------------------------------------
(* The file fetch loop, lines 82-112 *)

ContentLengthOf(b) ==
    CASE Len(b) = 0 -> <<"0">>
      [] Len(b) = 1 -> <<"1">>
      [] OTHER      -> <<"2">>

\* what the file server may answer to one GET
FileAnswers ==
    {[err |-> TRUE, StatusCode |-> 0, ContentLength |-> EmptyStr, Body |-> EmptyStr]}
    \cup {[err |-> FALSE, StatusCode |-> c, ContentLength |-> <<"2">>,
           Body |-> <<"not", "found">>] : c \in ErrorStatuses}
    \cup {[err |-> FALSE, StatusCode |-> StatusOK,
           ContentLength |-> ContentLengthOf(b), Body |-> b] :
              b \in Bodies \cup {EmptyStr}}
    \cup {[err |-> FALSE, StatusCode |-> StatusOK, ContentLength |-> EmptyStr,
           Body |-> b] : b \in Bodies}

Files == dr.payload.Solution.Files

\* mutant: the entry is not appended to the base URL
FileURL_BaseOnly(base, file) == base

\* line 83
FileURL(base, file) == base \o file

\* mutant: the status of the file response is not looked at
FetchFailed_Never(r) == FALSE

\* line 91
FetchFailed(r) == r.StatusCode # StatusOK

\* mutant: empty files are not skipped
IsEmptyFile_Never(r) == FALSE

\* line 97
IsEmptyFile(r) == r.ContentLength = <<"0">>

\* line 103
RelativePath(file, sep) == FromSlash(file, sep)

\* line 104
FileDir(solDir, file, sep) == JoinElems(solDir, Dir(RelativePath(file, sep), sep))

\* line 107
FilePath(solDir, file, sep) == Join(solDir, RelativePath(file, sep), sep)

\* lines 82-89
LoopGet ==
    /\ pc = "loop"
    /\ idx < Len(Files)
    /\ gets' = Append(gets, FileURL(dr.payload.Solution.FileDownloadBaseURL,
                                    Files[idx + 1]))
    /\ \E a \in FileAnswers :
          /\ fileRes' = a
          /\ IF a.err
             THEN /\ BailOnError(<<"transport">>)
                  /\ UNCHANGED openBodies
             ELSE /\ openBodies' = openBodies \cup {idx + 1}
                  /\ pc' = "check"
                  /\ UNCHANGED <<stderr, exitCode>>
    /\ UNCHANGED <<inputVars, exercise, dr, doPayload, res, solution, dirs, fs,
                   stdout, idx, openFiles, handled>>

\* lines 91-99
LoopCheck ==
    /\ pc = "check"
    /\ IF FetchFailed(fileRes)
       THEN /\ BailOnError(<<"Failed to download: ">> \o Files[idx + 1])
            /\ UNCHANGED <<idx, handled>>
       ELSE /\ IF IsEmptyFile(fileRes)
               THEN /\ idx' = idx + 1
                    /\ handled' = Append(handled, "skipped")
                    /\ pc' = "loop"
               ELSE /\ pc' = "write"
                    /\ UNCHANGED <<idx, handled>>
            /\ UNCHANGED <<stderr, exitCode>>
    /\ UNCHANGED <<inputVars, exercise, dr, doPayload, res, solution, dirs, fs,
                   stdout, gets, fileRes, openBodies, openFiles>>

\* lines 103-111
LoopWrite ==
    /\ pc = "write"
    /\ LET file == Files[idx + 1]
           dir  == FileDir(solution.Dir, file, env.Separator)
           path == FilePath(solution.Dir, file, env.Separator)
           made == dirs \cup MkdirAll(Paths(fs), dir)
           createFails == \/ path = << >>
                          \/ DropLast(path) \notin made
                          \/ path \in made
       IN  /\ dirs' = made
           /\ \E io \in {"ok", "create", "copy"} :
                 IF createFails \/ io = "create"
                 THEN /\ BailOnError(<<"create">>)
                      /\ UNCHANGED <<fs, openFiles, idx, handled>>
                 ELSE /\ openFiles' = openFiles \cup {idx + 1}
                      /\ IF io = "copy"
                         THEN /\ fs' = WriteFile(fs, path, EmptyStr)
                              /\ BailOnError(<<"copy">>)
                              /\ UNCHANGED <<idx, handled>>
                         ELSE /\ fs' = WriteFile(fs, path, fileRes.Body)
                              /\ idx' = idx + 1
                              /\ handled' = Append(handled, "written")
                              /\ pc' = "loop"
                              /\ UNCHANGED <<stderr, exitCode>>
    /\ UNCHANGED <<inputVars, exercise, dr, doPayload, res, solution, stdout,
                   gets, fileRes, openBodies>>

\* Run at line 82, for any payload a response can decode to
LoopInit ==
    /\ pc = "loop"
    /\ flags = [uuid |-> EmptyStr, track |-> <<"go">>, args |-> <<<<"bob">>>>]
    /\ env \in [Separator : {"/", "\\"}, configErr : {FALSE}]
    /\ server \in {a \in ServerAnswers : ~a.err /\ a.StatusCode = StatusOK}
    /\ exercise = <<"bob">>
    /\ dr = [request |-> newDownloadRequest(flags.uuid, flags.track, exercise,
                                            FALSE).dReq.request,
             payload |-> server.Body]
    /\ doPayload = server.Body
    /\ res = server.StatusCode
    /\ LET sol    == newSolution(dr)
           parent == Join(Workspace, PathToParent(sol), env.Separator)
           dir    == SolutionPath(parent, sol.Exercise, sol.ID, env.Separator)
       IN  /\ solution = Write(sol, dir)
           /\ dirs = {<< >>} \cup MkdirAll({}, dir)
           /\ fs = WriteFile({}, Append(dir, SolutionFile), Metadata(sol))
    /\ stderr = << >>
    /\ stdout = << >>
    /\ exitCode = 0
    /\ idx = 0
    /\ gets = << >>
    /\ fileRes = NoFileRes
    /\ openBodies = {}
    /\ openFiles = {}
    /\ handled = << >>

LoopNext ==
    \/ LoopGet
    \/ LoopCheck
    \/ LoopWrite
    \/ Finish

LoopSpec == LoopInit /\ [][LoopNext]_vars

Next ==
    \/ Run_Args
    \/ Run_NewRequest
    \/ Run_Do
    \/ Run_Status
    \/ Run_Materialize
    \/ Finish

Spec == Init /\ [][Next]_vars

\* The whole command with the loop body: from Init the file list Run ranges
\* over is always empty, so the body is never entered.
Program == Init /\ [][Next \/ LoopNext]_vars

LoopBodyUnreached == pc \notin {"check", "write"} /\ gets = << >>

----------------------------------------------------------------------------
(* Helpers of the properties *)

IsSubstring(sub, s) ==
    \E k \in 0..(Len(s) - Len(sub)) : SubSeq(s, k + 1, k + Len(sub)) = sub

UnescapeLexeme(c) ==
    CASE c = "+"   -> " "
      [] c = "%2B" -> "+"
      [] c = "%2F" -> "/"
      [] c = "%26" -> "&"
      [] c = "%3D" -> "="
      [] OTHER     -> c

QueryUnescape(s) == [i \in 1..Len(s) |-> UnescapeLexeme(s[i])]

RECURSIVE SplitOn(_, _, _, _)
SplitOn(s, i, cur, sep) ==
    IF i > Len(s) THEN <<cur>>
    ELSE IF s[i] = sep THEN <<cur>> \o SplitOn(s, i + 1, << >>, sep)
         ELSE SplitOn(s, i + 1, Append(cur, s[i]), sep)

RECURSIVE ValuesOf(_, _)
ValuesOf(parts, key) ==
    IF parts = << >> THEN << >>
    ELSE LET h == Head(parts)
         IN  (IF Len(h) >= 2 /\ h[1] = key /\ h[2] = "="
              THEN <<QueryUnescape(SubSeq(h, 3, Len(h)))>>
              ELSE << >>) \o ValuesOf(Tail(parts), key)

\* url.ParseQuery(raw)[key]
QueryValues(raw, key) ==
    IF raw = << >> THEN << >> ELSE ValuesOf(SplitOn(raw, 1, << >>, "&"), key)

RequestBuilt == dr.request # NoRequest

Terminated == pc \in {"done", "exit"}

SucceededMsg == stdout # << >>

\* the solution directory the server's answer describes
ServerSolutionDir ==
    LET s == server.Body.Solution
    IN  SolutionPath(Join(Workspace, s.Exercise_Track, env.Separator),
                     s.Exercise, s.ID, env.Separator)

----------------------------------------------------------------------------
(* Properties *)

\* C1: after a run in which the top-level response is 200 with N file
\* entries (every file GET answering 200 with content), exactly N files have
\* been written, one per entry files[i], at
\* workspace/track/exercise/solution-id/<files[i] with local separators>.
C1_AllFilesWritten ==
    (pc = "done" /\ SucceededMsg /\ ~server.err /\ server.StatusCode = StatusOK)
    => LET files == server.Body.Solution.Files
       IN  /\ \A i \in 1..Len(files) :
                 \E f \in fs :
                    f.path = Join(ServerSolutionDir,
                                  FromSlash(files[i], env.Separator), env.Separator)
           /\ Cardinality({f \in fs : f.path # Append(solution.Dir, SolutionFile)})
                 = Len(files)

\* C2: a non-200 top-level response whose body has error.type =
\* "track_ambiguous" ends the process with a non-zero status, and what was
\* written to stderr contains every id of possible_track_ids.
C2_AmbiguousTrackGuidance ==
    (Terminated /\ res # 0 /\ res # StatusOK
       /\ server.Body.Error.Type = <<"track_ambiguous">>)
    => /\ pc = "exit"
       /\ exitCode # 0
       /\ \A i \in 1..Len(server.Body.Error.PossibleTrackIDs) :
             \E k \in 1..Len(stderr) :
                IsSubstring(server.Body.Error.PossibleTrackIDs[i], stderr[k])

\* C3: a non-200 top-level response whose body has another error type (or
\* none) and error.message = m ends the process with a non-zero status, and
\* the error written is exactly m.
C3_GenericErrorMessage ==
    (Terminated /\ res # 0 /\ res # StatusOK
       /\ server.Body.Error.Type # <<"track_ambiguous">>)
    => /\ pc = "exit"
       /\ exitCode # 0
       /\ stderr = <<server.Body.Error.Message \o <<"\n">>>>

\* C4: with an empty uuid the request goes to the download endpoint with slug
\* "latest"; its query holds exercise_id = exercise, and holds track_id = track
\* if and only if track is non-empty.
C4_LatestRequest ==
    (RequestBuilt /\ flags.uuid = EmptyStr)
    => /\ dr.request.Method = "GET"
       /\ dr.request.URL.Endpoint = "download"
       /\ dr.request.URL.Slug = <<"latest">>
       /\ QueryValues(dr.request.URL.RawQuery, "exercise_id") = <<flags.args[1]>>
       /\ QueryValues(dr.request.URL.RawQuery, "track_id")
             = (IF flags.track # EmptyStr THEN <<flags.track>> ELSE << >>)

C4_Witness ==
    /\ pc = "do"
    /\ flags.uuid = EmptyStr
    /\ flags.track = <<"c", "+", "+">>
    /\ flags.args = <<<<"two", " ", "fer">>>>
    /\ dr.request.URL.RawQuery # EmptyStr

\* C5: with a non-empty uuid the request goes to the download endpoint with
\* slug = uuid and no query, whatever the exercise and track arguments are.
C5_UUIDRequest ==
    (RequestBuilt /\ flags.uuid # EmptyStr)
    => dr.request = [Method |-> "GET",
                     URL |-> [Endpoint |-> "download", Slug |-> flags.uuid,
                              RawQuery |-> EmptyStr]]

C5_Witness ==
    /\ pc = "do"
    /\ flags.uuid # EmptyStr
    /\ flags.track # EmptyStr
    /\ Len(flags.args) > 0
    /\ flags.args[1] # EmptyStr
    /\ dr.request.URL.Slug = flags.uuid

\* C6: in the file fetch loop, an entry whose GET answers 200 with
\* Content-Length 0 has no directory and no file created for it, does not end
\* the run, and is followed by the GET of the next entry of the list, or by
\* the success message when it was the last one.
C6_EmptyFileSkipped ==
    [][ /\ (pc = "check" /\ fileRes.StatusCode = StatusOK
              /\ fileRes.ContentLength = <<"0">>)
           => /\ dirs' = dirs
              /\ fs' = fs
              /\ exitCode' = 0
              /\ pc' = "loop"
              /\ idx' = idx + 1
              /\ gets' = gets
        /\ (pc = "loop" /\ handled # << >> /\ handled[Len(handled)] = "skipped")
           => IF idx < Len(Files)
              THEN gets' = Append(gets, dr.payload.Solution.FileDownloadBaseURL
                                         \o Files[idx + 1])
              ELSE pc' = "done" /\ stdout' # << >> /\ exitCode' = 0
      ]_vars

C6_Witness ==
    /\ Len(handled) = 1
    /\ handled[1] = "skipped"
    /\ Len(gets) = 2
    /\ fs = {[path |-> Append(solution.Dir, SolutionFile),
              content |-> Metadata(solution)]}

\* C7: a file GET that answers a non-200 status ends the process at once with
\* "Failed to download: <file>": no GET is issued and no file is written for
\* any later entry, and the success message is never printed.
C7_FailedFetchIsFatal ==
    (~fileRes.err /\ fileRes.StatusCode # 0 /\ fileRes.StatusCode # StatusOK
       /\ pc # "check")
    => /\ pc = "exit"
       /\ exitCode # 0
       /\ stderr[Len(stderr)] = <<"Failed to download: ">> \o Files[idx + 1]
                                  \o <<"\n">>
       /\ Len(gets) = idx + 1
       /\ Len(handled) = idx
       /\ stdout = << >>

C7_Witness ==
    /\ pc = "exit"
    /\ fileRes.StatusCode \in ErrorStatuses
    /\ idx = 0
    /\ Len(Files) = 2
    /\ fs = {[path |-> Append(solution.Dir, SolutionFile),
              content |-> Metadata(solution)]}

====
